---- MODULE Spec2Model ----
(***************************************************************************)
(* YaMDb API: the store (users, categories, genres, titles, reviews,       *)
(* comments), the permission classes, the nested review/comment views, the *)
(* rating annotation and the signup/token views, as a state machine.       *)
(*                                                                         *)
(* A request is one action: it draws the acting user, the path ids and the *)
(* body from small sets, runs the whole handler (permission check, lookup, *)
(* validation, save) and records the response in `last`.  The review       *)
(* handlers also exist split at the point where they have read the store   *)
(* and not yet written it (Begin... / Finish...), which is where requests  *)
(* served by different workers interleave.                                 *)
(***************************************************************************)
EXTENDS Integers, Sequences, FiniteSets, TLC

VARIABLES
    users,       \* rows of reviews_user
    categories,  \* rows of reviews_category (slugs)
    genres,      \* rows of reviews_genre (slugs)
    titles,      \* rows of reviews_title, with the genre links
    reviews,     \* rows of reviews_review
    comments,    \* rows of reviews_comment
    seq,         \* next auto-increment pk of each table
    inflight,    \* per worker: the request that has validated and not yet saved
    outbox,      \* the mails send_mail has delivered, oldest first
    clock,       \* the time, in days
    last         \* the last request served and its response

vars == <<users, categories, genres, titles, reviews, comments, seq,
          inflight, outbox, clock, last>>

store == <<users, categories, genres, titles, reviews, comments>>

-----------------------------------------------------------------------------
(* Bounds of the model *)

MaxReviewId == 2
MaxCommentId == 2
MaxTitleId == 2
MaxUserId == 2
MaxWorkers == 2
MaxMails == 2
MaxClock == 1
CodeLifetime == 0

-----------------------------------------------------------------------------
(* reviews/models.py: User *)

USER == "user"
MODERATOR == "moderator"
ADMIN == "admin"

AnonymousUser ==
    [id |-> 0, username |-> "", email |-> "", role |-> "", is_staff |-> FALSE]

NewUser(id, username, email, role, is_staff) ==
    [id |-> id, username |-> username, email |-> email, role |-> role,
     is_staff |-> is_staff]

\* request.user: the row of the authenticated user, or AnonymousUser
RequestUser(uid) ==
    IF \E u \in users : u.id = uid
    THEN CHOOSE u \in users : u.id = uid
    ELSE AnonymousUser

ActorIds == {u.id : u \in users} \cup {AnonymousUser.id}

is_authenticated(u) == u.id # AnonymousUser.id

is_admin(u) == u.role = ADMIN \/ u.is_staff

is_moderator(u) == u.role = MODERATOR

-----------------------------------------------------------------------------
(* api/permissions.py *)

SAFE_METHODS == {"GET", "HEAD", "OPTIONS"}

\* the HTTP method the router binds to a viewset action
MethodOf(action) ==
    CASE action \in {"list", "retrieve"} -> "GET"
      [] action = "create" -> "POST"
      [] action = "update" -> "PUT"
      [] action = "partial_update" -> "PATCH"
      [] action = "destroy" -> "DELETE"

IsAdminRole(u) == is_authenticated(u) /\ is_admin(u)

IsReadOnly(method) == method \in SAFE_METHODS

CatalogPermission_any_authenticated(u, method) ==
    IsReadOnly(method) \/ is_authenticated(u)
\* permission_classes = [IsReadOnly | IsAdminRole]
CatalogPermission(u, method) == IsReadOnly(method) \/ IsAdminRole(u)

IsAuthenticatedOrReadOnly_allowAny(u, method) == TRUE
\* RetrieveOnlyOrHasCUDPermissions.has_permission, inherited
IsAuthenticatedOrReadOnly(u, method) ==
    method \in SAFE_METHODS \/ is_authenticated(u)

HasObjectPermission_authenticated(u, action, obj) ==
    action = "retrieve" \/ is_authenticated(u)
HasObjectPermission(u, action, obj) ==
    IF action = "retrieve"
    THEN TRUE
    ELSE is_admin(u) \/ is_moderator(u) \/ u.id = obj.author

-----------------------------------------------------------------------------
(* Responses *)

AuthorizationError == "AuthorizationError"
ValidationError == "ValidationError"
NotFound == "NotFound"
ServerError == "ServerError"
MethodNotAllowed == "MethodNotAllowed"
OK == "OK"
Created == "Created"
NoContent == "NoContent"

Successes == {OK, Created, NoContent}

\* the rating field of a serialized Title: null, or the float num/den
Null == [null |-> TRUE, num |-> 0, den |-> 1]

NoRating == {}

\* a confirmation code: the user state and the day it was made for
Code(uid, email, day) == [uid |-> uid, email |-> email, day |-> day]

NoCode == Code(0, "", 0)

\* a response: the request (view, action, actor, path ids; for the auth and
\* user views the username, email and code sent, and the fields and the role
\* of a user body) and what came back
Response(view, action, uid, path, status, rating, ids) ==
    [view |-> view, action |-> action, user |-> uid,
     tid |-> path[1], rid |-> path[2], cid |-> path[3], step |-> "request",
     name |-> "", email |-> "", code |-> NoCode, keys |-> {}, role |-> "",
     status |-> status, detail |-> "", ratings |-> rating, ids |-> ids,
     token |-> 0]

Resp(view, action, uid, path, status) ==
    Response(view, action, uid, path, status, NoRating, {})

\* no response is waiting to be read by the client
Quiet == Resp("", "", 0, <<0, 0, 0>>, "")

\* the response reaches the client; the next request is served after that
Deliver ==
    /\ last # Quiet
    /\ last' = Quiet
    /\ UNCHANGED <<users, categories, genres, titles, reviews, comments, seq,
                   inflight, outbox, clock>>

-----------------------------------------------------------------------------
(* reviews/models.py: Review, and api/serializers.py: ReviewSerializer *)

MinScore == 1
MaxScore == 10

\* a request body: the keys it carries and their values (defaults when absent)
Body(keys, text, score) == [keys |-> keys, text |-> text, score |-> score]

NoBody == Body({}, "", 0)

\* bodies sent to the reviews endpoint: complete ones with the scores at and
\* beyond both validators, a blank text, and partial ones
FullReviewBodies ==
    {Body({"text", "score"}, "a", s) :
        s \in {MinScore - 1, MinScore, MaxScore, MaxScore + 1}}
    \cup {Body({"text", "score"}, "", MinScore)}

PartialReviewBodies ==
    {Body({"score"}, "", MaxScore), Body({"score"}, "", MaxScore + 1), NoBody}

\* POST and PUT carry a complete body or none, PATCH a partial one
ReviewBodies == FullReviewBodies \cup {NoBody}

ReviewUpdates ==
    {<<"update", b>> : b \in ReviewBodies}
    \cup {<<"partial_update", b>> : b \in PartialReviewBodies}

\* bodies sent to the comments endpoint
CommentBodies ==
    {Body({"text"}, "a", 0), Body({"text"}, "b", 0), Body({"text"}, "", 0), NoBody}

CommentUpdates ==
    {<<"update", b>> : b \in CommentBodies}
    \cup {<<"partial_update", b>> : b \in {Body({"text"}, "b", 0), NoBody}}

NewReview(id, tid, uid, body) ==
    [id |-> id, title |-> tid, author |-> uid, score |-> body.score,
     text |-> body.text]

\* field validation of ReviewSerializer: text and score are required unless
\* the update is partial, text may not be blank, score has the validators
ReviewFieldsValid(body, partial) ==
    /\ (~partial => {"text", "score"} \subseteq body.keys)
    /\ ("text" \in body.keys => body.text # "")
    /\ ("score" \in body.keys => body.score >= MinScore /\ body.score <= MaxScore)

\* ReviewSerializer.validate
ReviewValidate_anyMethod(u, tid, method) ==
    ~ \E r \in reviews : r.author = u.id /\ r.title = tid
ReviewValidate(u, tid, method) ==
    LET is_exist == \E r \in reviews : r.author = u.id /\ r.title = tid
    IN  ~(is_exist /\ method = "POST")

\* is_valid: the field errors, or else the error validate() raises, or none
ReviewErrors(u, tid, method, body, partial) ==
    IF ~ReviewFieldsValid(body, partial) THEN "invalid"
    ELSE IF ~ReviewValidate(u, tid, method) THEN "duplicate"
    ELSE ""

\* the instance after ModelSerializer.update has set the validated fields
ReviewApply(r, body) ==
    [r EXCEPT !.score = IF "score" \in body.keys THEN body.score ELSE @,
              !.text = IF "text" \in body.keys THEN body.text ELSE @]

TitleExists(tid) == \E t \in titles : t.id = tid

\* Review.Meta.constraints: just_one_review_per_author
UniqueViolated_off(rows, row) == FALSE
UniqueViolated(rows, row) ==
    \E r \in rows : r.id # row.id /\ r.title = row.title /\ r.author = row.author

\* the foreign keys of a Review row
ReviewFKsHold(row) ==
    TitleExists(row.title) /\ \E u \in users : u.id = row.author

\* title.reviews.all()
ReviewsOf(tid) == {r \in reviews : r.title = tid}

\* on_delete=CASCADE from Review to Comment
CascadeComments(rows) == {c \in comments : \E r \in rows : c.review = r.id}


-----------------------------------------------------------------------------
(* api/views.py: ReviewView *)

Pending == "pending"
Valid == "valid"

NoRow == [id |-> 0, title |-> 0, author |-> 0, score |-> 0, text |-> ""]
Idle == [action |-> "idle", user |-> 0, tid |-> 0, row |-> NoRow]

Workers == 1..MaxWorkers

\* get_queryset and get_object: the review with this pk among title.reviews
ReviewFound(tid, rid) ==
    TitleExists(tid) /\ \E r \in ReviewsOf(tid) : r.id = rid

ReviewObject(tid, rid) == CHOOSE r \in ReviewsOf(tid) : r.id = rid

\* the handler up to the point where it has read and validated: initial()
\* with check_permissions, then (create) is_valid, or (the detail actions)
\* get_object with check_object_permissions and (update) is_valid
Verdict(status, detail) == [status |-> status, detail |-> detail]

Invalid(detail) ==
    IF detail = "" THEN Verdict(Valid, "") ELSE Verdict(ValidationError, detail)

ReviewBegin(action, uid, tid, rid, body) ==
    LET u == RequestUser(uid)
        method == MethodOf(action)
    IN  IF ~IsAuthenticatedOrReadOnly(u, method)
        THEN Verdict(AuthorizationError, "")
        ELSE IF action = "create"
        THEN Invalid(ReviewErrors(u, tid, method, body, FALSE))
        ELSE IF ~TitleExists(tid) THEN Verdict(NotFound, "")
        ELSE IF action = "list" THEN Verdict(Valid, "")
        ELSE IF ~ReviewFound(tid, rid) THEN Verdict(NotFound, "")
        ELSE IF ~HasObjectPermission(u, action, ReviewObject(tid, rid))
        THEN Verdict(AuthorizationError, "")
        ELSE IF action \in {"update", "partial_update"}
        THEN Invalid(ReviewErrors(u, tid, method, body,
                                  action = "partial_update"))
        ELSE Verdict(Valid, "")

\* the row the validated request is about to write (or delete)
ReviewRow(action, uid, tid, rid, body) ==
    IF action = "create"
    THEN NewReview(0, tid, uid, body)
    ELSE IF action = "destroy"
    THEN ReviewObject(tid, rid)
    ELSE ReviewApply(ReviewObject(tid, rid), body)

\* perform_create: get_object_or_404(Title), then the INSERT; a violated
\* constraint raises IntegrityError, which nothing catches
PerformCreate(req) ==
    IF ~TitleExists(req.tid)
    THEN [status |-> NotFound, reviews |-> reviews, comments |-> comments]
    ELSE LET row == [req.row EXCEPT !.id = seq.review]
         IN  IF UniqueViolated(reviews, row) \/ ~ReviewFKsHold(row)
             THEN [status |-> ServerError, reviews |-> reviews,
                   comments |-> comments]
             ELSE [status |-> Created, reviews |-> reviews \cup {row},
                   comments |-> comments]

\* perform_update: instance.save() is an UPDATE by pk and, when that matches
\* no row, an INSERT of the instance
PerformUpdate(req) ==
    LET row == req.row
        others == {r \in reviews : r.id # row.id}
    IN  IF UniqueViolated(others, row) \/ ~ReviewFKsHold(row)
        THEN [status |-> ServerError, reviews |-> reviews, comments |-> comments]
        ELSE [status |-> OK, reviews |-> others \cup {row}, comments |-> comments]

\* perform_destroy: instance.delete(), with the cascade to its comments
PerformDestroy(req) ==
    LET gone == {r \in reviews : r.id = req.row.id}
    IN  [status |-> NoContent, reviews |-> reviews \ gone,
         comments |-> comments \ CascadeComments(gone)]

ReviewFinish(req) ==
    CASE req.action = "create" -> PerformCreate(req)
      [] req.action \in {"update", "partial_update"} -> PerformUpdate(req)
      [] req.action = "destroy" -> PerformDestroy(req)

ReviewWrites == {"create", "update", "partial_update", "destroy"}

Path(tid, rid, cid) == <<tid, rid, cid>>

Answer(step, r) == [r EXCEPT !.step = step]

Failed(view, action, uid, path, v) ==
    [Resp(view, action, uid, path, v.status) EXCEPT !.detail = v.detail]

\* what a request leaves alone besides the review and comment tables
ReviewFrame == UNCHANGED <<users, categories, genres, titles, outbox, clock>>

BumpReviewSeq(status) ==
    seq' = IF status = Created THEN [seq EXCEPT !.review = @ + 1] ELSE seq

\* a whole write request to the reviews endpoint, served without interleaving
ReviewWrite(action, uid, tid, rid, body) ==
    LET b == ReviewBegin(action, uid, tid, rid, body)
        req == [action |-> action, user |-> uid, tid |-> tid,
                row |-> ReviewRow(action, uid, tid, rid, body)]
    IN  /\ last = Quiet
        /\ \A w \in Workers : inflight[w] = Idle
        /\ IF b.status # Valid
           THEN /\ last' = Failed("reviews", action, uid, Path(tid, rid, 0), b)
                /\ UNCHANGED <<reviews, comments, seq>>
           ELSE LET f == ReviewFinish(req)
                IN  /\ reviews' = f.reviews
                    /\ comments' = f.comments
                    /\ BumpReviewSeq(f.status)
                    /\ last' = Resp("reviews", action, uid, Path(tid, rid, 0),
                                    f.status)
        /\ UNCHANGED inflight
        /\ ReviewFrame

CreateReview ==
    \E uid \in ActorIds, tid \in 1..seq.title, body \in ReviewBodies :
        /\ ReviewWrite("create", uid, tid, 0, body)
        /\ seq'.review <= MaxReviewId + 1

UpdateReview ==
    \E uid \in ActorIds, tid \in 1..seq.title, rid \in 1..seq.review,
       upd \in ReviewUpdates :
        ReviewWrite(upd[1], uid, tid, rid, upd[2])

DestroyReview ==
    \E uid \in ActorIds, tid \in 1..seq.title, rid \in 1..seq.review :
        ReviewWrite("destroy", uid, tid, rid, NoBody)

\* GET .../reviews/ and GET .../reviews/{id}/
ListReviews ==
    \E uid \in ActorIds, tid \in 1..seq.title :
        LET b == ReviewBegin("list", uid, tid, 0, NoBody)
        IN  /\ last = Quiet
            /\ last' = IF b.status = Valid
                       THEN Response("reviews", "list", uid, Path(tid, 0, 0), OK,
                                     NoRating, {r.id : r \in ReviewsOf(tid)})
                       ELSE Failed("reviews", "list", uid, Path(tid, 0, 0), b)
            /\ UNCHANGED <<reviews, comments, seq, inflight>>
            /\ ReviewFrame

RetrieveReview ==
    \E uid \in ActorIds, tid \in 1..seq.title, rid \in 1..seq.review :
        LET b == ReviewBegin("retrieve", uid, tid, rid, NoBody)
        IN  /\ last = Quiet
            /\ last' = IF b.status = Valid
                       THEN Response("reviews", "retrieve", uid,
                                     Path(tid, rid, 0), OK, NoRating, {rid})
                       ELSE Failed("reviews", "retrieve", uid,
                                   Path(tid, rid, 0), b)
            /\ UNCHANGED <<reviews, comments, seq, inflight>>
            /\ ReviewFrame

\* the same write requests served by concurrent workers: a worker runs the
\* handler up to the validated request, and saves in a later step
BeginWrite(w, action, uid, tid, rid, body) ==
    LET b == ReviewBegin(action, uid, tid, rid, body)
    IN  /\ last = Quiet
        /\ inflight[w] = Idle
        /\ IF b.status # Valid
           THEN /\ last' = Answer("begin",
                        Failed("reviews", action, uid, Path(tid, rid, 0), b))
                /\ UNCHANGED inflight
           ELSE /\ last' = Answer("begin",
                        Resp("reviews", action, uid, Path(tid, rid, 0), Pending))
                /\ inflight' = [inflight EXCEPT ![w] =
                        [action |-> action, user |-> uid, tid |-> tid,
                         row |-> ReviewRow(action, uid, tid, rid, body)]]
        /\ UNCHANGED <<reviews, comments, seq>>
        /\ ReviewFrame

\* the worker that takes the next request: the first idle one
NextWorker(w) == inflight[w] = Idle /\ \A v \in Workers : v < w => inflight[v] # Idle

BeginCreateReview(w) ==
    \E uid \in ActorIds, tid \in 1..seq.title, body \in ReviewBodies :
        /\ NextWorker(w)
        /\ BeginWrite(w, "create", uid, tid, 0, body)

BeginUpdateReview(w) ==
    \E uid \in ActorIds, tid \in 1..seq.title, rid \in 1..seq.review,
       upd \in ReviewUpdates :
        /\ NextWorker(w)
        /\ BeginWrite(w, upd[1], uid, tid, rid, upd[2])

BeginDestroyReview(w) ==
    \E uid \in ActorIds, tid \in 1..seq.title, rid \in 1..seq.review :
        /\ NextWorker(w)
        /\ BeginWrite(w, "destroy", uid, tid, rid, NoBody)

FinishReview(w) ==
    LET req == inflight[w]
        f == ReviewFinish(req)
    IN  /\ last = Quiet
        /\ req # Idle
        /\ reviews' = f.reviews
        /\ comments' = f.comments
        /\ BumpReviewSeq(f.status)
        /\ seq'.review <= MaxReviewId + 1
        /\ inflight' = [inflight EXCEPT ![w] = Idle]
        /\ last' = Answer("finish",
                Resp("reviews", req.action, req.user,
                     Path(req.tid, req.row.id, 0), f.status))
        /\ ReviewFrame


-----------------------------------------------------------------------------
(* reviews/models.py: Comment; api/serializers.py: CommentSerializer;      *)
(* api/views.py: CommentView                                               *)

NewComment(id, rid, uid, body) ==
    [id |-> id, review |-> rid, author |-> uid, text |-> body.text]

\* field validation of CommentSerializer: text is required unless the update
\* is partial, and may not be blank
CommentErrors(body, partial) ==
    IF /\ (~partial => "text" \in body.keys)
       /\ ("text" \in body.keys => body.text # "")
    THEN "" ELSE "invalid"

CommentApply(c, body) ==
    [c EXCEPT !.text = IF "text" \in body.keys THEN body.text ELSE @]

\* get_object_or_404(Review, pk=review_id, title__pk=title_id)
ParentReviewFound_byPkOnly(tid, rid) == \E r \in reviews : r.id = rid
ParentReviewFound(tid, rid) ==
    \E r \in reviews : r.id = rid /\ r.title = tid

\* review.comments.all()
CommentsOf(rid) == {c \in comments : c.review = rid}

CommentFound(rid, cid) == \E c \in CommentsOf(rid) : c.id = cid

CommentObject(rid, cid) == CHOOSE c \in CommentsOf(rid) : c.id = cid

\* the whole handler of a request to the comments endpoint: the response and
\* the comments table after it
CommentHandle(action, uid, tid, rid, cid, body) ==
    LET u == RequestUser(uid)
        method == MethodOf(action)
        fail(v) == [verdict |-> v, comments |-> comments, ids |-> {}]
        done(status, rows, ids) ==
            [verdict |-> Verdict(status, ""), comments |-> rows, ids |-> ids]
    IN  IF ~IsAuthenticatedOrReadOnly(u, method)
        THEN fail(Verdict(AuthorizationError, ""))
        ELSE IF action = "create"
        THEN IF CommentErrors(body, FALSE) # ""
             THEN fail(Verdict(ValidationError, CommentErrors(body, FALSE)))
             ELSE IF ~ParentReviewFound(tid, rid)
             THEN fail(Verdict(NotFound, ""))
             ELSE done(Created,
                       comments \cup {NewComment(seq.comment, rid, uid, body)},
                       {seq.comment})
        ELSE IF ~ParentReviewFound(tid, rid) THEN fail(Verdict(NotFound, ""))
        ELSE IF action = "list"
        THEN done(OK, comments, {c.id : c \in CommentsOf(rid)})
        ELSE IF ~CommentFound(rid, cid) THEN fail(Verdict(NotFound, ""))
        ELSE LET obj == CommentObject(rid, cid)
                 partial == action = "partial_update"
             IN  IF ~HasObjectPermission(u, action, obj)
                 THEN fail(Verdict(AuthorizationError, ""))
                 ELSE IF action = "retrieve" THEN done(OK, comments, {cid})
                 ELSE IF action = "destroy"
                 THEN done(NoContent, comments \ {obj}, {cid})
                 ELSE IF CommentErrors(body, partial) # ""
                 THEN fail(Verdict(ValidationError,
                                   CommentErrors(body, partial)))
                 ELSE done(OK, (comments \ {obj}) \cup {CommentApply(obj, body)},
                           {cid})

CommentRequest(action, uid, tid, rid, cid, body) ==
    LET h == CommentHandle(action, uid, tid, rid, cid, body)
    IN  /\ last = Quiet
        /\ comments' = h.comments
        /\ seq' = IF h.verdict.status = Created
                  THEN [seq EXCEPT !.comment = @ + 1] ELSE seq
        /\ last' = [Response("comments", action, uid, Path(tid, rid, cid),
                             h.verdict.status, NoRating, h.ids)
                    EXCEPT !.detail = h.verdict.detail]
        /\ UNCHANGED <<users, categories, genres, titles, reviews, inflight,
                       outbox, clock>>

CreateComment ==
    \E uid \in ActorIds, tid \in 1..seq.title, rid \in 1..seq.review,
       body \in CommentBodies :
        /\ CommentRequest("create", uid, tid, rid, 0, body)
        /\ seq'.comment <= MaxCommentId + 1

ListComments ==
    \E uid \in ActorIds, tid \in 1..seq.title, rid \in 1..seq.review :
        CommentRequest("list", uid, tid, rid, 0, NoBody)

RetrieveComment ==
    \E uid \in ActorIds, tid \in 1..seq.title, rid \in 1..seq.review,
       cid \in 1..seq.comment :
        CommentRequest("retrieve", uid, tid, rid, cid, NoBody)

UpdateComment ==
    \E uid \in ActorIds, tid \in 1..seq.title, rid \in 1..seq.review,
       cid \in 1..seq.comment, upd \in CommentUpdates :
        CommentRequest(upd[1], uid, tid, rid, cid, upd[2])

DestroyComment ==
    \E uid \in ActorIds, tid \in 1..seq.title, rid \in 1..seq.review,
       cid \in 1..seq.comment :
        CommentRequest("destroy", uid, tid, rid, cid, NoBody)

-----------------------------------------------------------------------------
(* reviews/models.py: Title; api/serializers.py: TitlePostSerializer,      *)
(* TitleViewSerializer; api/views.py: TitleViewSet                         *)

ThisYear == 2023

NewTitle(id, name, year, category, genre) ==
    [id |-> id, name |-> name, year |-> year, category |-> category,
     genre |-> genre]

TitleBody(keys, year, category, genre) ==
    [keys |-> keys, name |-> "t", year |-> year, category |-> category,
     genre |-> genre]

TitleKeys == {"name", "year", "category", "genre"}

\* bodies sent to the titles endpoint: complete ones (a year at or past the
\* validator, with or without a genre) and partial ones
TitleBodies ==
    {TitleBody(TitleKeys, y, "c1", g) :
        y \in {ThisYear, ThisYear + 1}, g \in {{}, {"g1"}}}
    \cup {TitleBody({}, 0, "", {})}

TitleUpdates ==
    {<<"update", b>> : b \in TitleBodies}
    \cup {<<"partial_update", TitleBody({"genre"}, 0, "", g)>> : g \in {{}, {"g1"}}}

\* field validation of TitlePostSerializer: name, year, category and genre
\* are required unless the update is partial; year has the validator; the
\* slugs must name stored rows
TitleErrors(body, partial) ==
    IF /\ (~partial => TitleKeys \subseteq body.keys)
       /\ ("year" \in body.keys => body.year >= 0 /\ body.year <= ThisYear)
       /\ ("category" \in body.keys =>
                \E c \in categories : c.slug = body.category)
       /\ ("genre" \in body.keys =>
                \A g \in body.genre : \E x \in genres : x.slug = g)
    THEN "" ELSE "invalid"

TitleApply(t, body) ==
    [t EXCEPT !.name = IF "name" \in body.keys THEN body.name ELSE @,
              !.year = IF "year" \in body.keys THEN body.year ELSE @,
              !.category = IF "category" \in body.keys THEN body.category ELSE @,
              !.genre = IF "genre" \in body.keys THEN body.genre ELSE @]

RECURSIVE SumScores(_)
SumScores(rows) ==
    IF rows = {} THEN 0
    ELSE LET r == CHOOSE x \in rows : TRUE
         IN  r.score + SumScores(rows \ {r})

RECURSIVE GCD(_, _)
GCD(a, b) == IF b = 0 THEN a ELSE GCD(b, a % b)

\* the float num/den, in lowest terms
Float(num, den) ==
    [null |-> FALSE, num |-> num \div GCD(num, den), den |-> den \div GCD(num, den)]

\* annotate(rating=Avg('reviews__score')): the LEFT JOIN of the title with its
\* reviews, NULL when it has none
Avg_allReviews(tid) ==
    IF reviews = {} THEN Null
    ELSE Float(SumScores(reviews), Cardinality(reviews))
Avg(tid) ==
    LET rows == {r \in reviews : r.title = tid}
    IN  IF rows = {} THEN Null
        ELSE Float(SumScores(rows), Cardinality(rows))

\* TitleViewSerializer: the rating of each serialized title
Ratings(tids) == {[title |-> tid, rating |-> Avg(tid)] : tid \in tids}

\* on_delete=CASCADE from Title to Review
CascadeReviews(rows) == {r \in reviews : \E t \in rows : r.title = t.id}

\* the whole handler of a request to the titles endpoint: the response and
\* the tables after it
TitleHandle(action, uid, tid, body) ==
    LET u == RequestUser(uid)
        method == MethodOf(action)
        same == [titles |-> titles, reviews |-> reviews, comments |-> comments]
        fail(v) == [verdict |-> v, tables |-> same, ratings |-> NoRating,
                    ids |-> {}]
        done(status, tables, ratings, ids) ==
            [verdict |-> Verdict(status, ""), tables |-> tables,
             ratings |-> ratings, ids |-> ids]
    IN  IF ~CatalogPermission(u, method)
        THEN fail(Verdict(AuthorizationError, ""))
        ELSE IF action = "list"
        THEN done(OK, same, Ratings({t.id : t \in titles}),
                  {t.id : t \in titles})
        ELSE IF action = "create"
        THEN IF TitleErrors(body, FALSE) # ""
             THEN fail(Verdict(ValidationError, "invalid"))
             ELSE done(Created,
                       [same EXCEPT !.titles = @ \cup
                            {NewTitle(seq.title, body.name, body.year,
                                      body.category, body.genre)}],
                       NoRating, {seq.title})
        ELSE IF ~TitleExists(tid) THEN fail(Verdict(NotFound, ""))
        ELSE LET obj == CHOOSE t \in titles : t.id = tid
                 partial == action = "partial_update"
             IN  IF action = "retrieve"
                 THEN done(OK, same, Ratings({tid}), {tid})
                 ELSE IF action = "destroy"
                 THEN done(NoContent,
                           [titles |-> titles \ {obj},
                            reviews |-> reviews \ CascadeReviews({obj}),
                            comments |-> comments
                                \ CascadeComments(CascadeReviews({obj}))],
                           NoRating, {tid})
                 ELSE IF TitleErrors(body, partial) # ""
                 THEN fail(Verdict(ValidationError, "invalid"))
                 ELSE done(OK,
                           [same EXCEPT !.titles =
                                (@ \ {obj}) \cup {TitleApply(obj, body)}],
                           NoRating, {tid})

TitleRequest(action, uid, tid, body) ==
    LET h == TitleHandle(action, uid, tid, body)
    IN  /\ last = Quiet
        /\ titles' = h.tables.titles
        /\ reviews' = h.tables.reviews
        /\ comments' = h.tables.comments
        /\ seq' = IF h.verdict.status = Created
                  THEN [seq EXCEPT !.title = @ + 1] ELSE seq
        /\ last' = [Response("titles", action, uid, Path(tid, 0, 0),
                             h.verdict.status, h.ratings, h.ids)
                    EXCEPT !.detail = h.verdict.detail]
        /\ UNCHANGED <<users, categories, genres, inflight, outbox, clock>>

NoTitleBody == TitleBody({}, 0, "", {})

ListTitles ==
    \E uid \in ActorIds : TitleRequest("list", uid, 0, NoTitleBody)

RetrieveTitle ==
    \E uid \in ActorIds, tid \in 1..seq.title :
        TitleRequest("retrieve", uid, tid, NoTitleBody)

CreateTitle ==
    \E uid \in ActorIds, body \in TitleBodies :
        /\ TitleRequest("create", uid, 0, body)
        /\ seq'.title <= MaxTitleId + 1

UpdateTitle ==
    \E uid \in ActorIds, tid \in 1..seq.title, upd \in TitleUpdates :
        TitleRequest(upd[1], uid, tid, upd[2])

DestroyTitle ==
    \E uid \in ActorIds, tid \in 1..seq.title :
        TitleRequest("destroy", uid, tid, NoTitleBody)

-----------------------------------------------------------------------------
(* reviews/models.py: Category, Genre; api/views.py: CreateListViewSet,    *)
(* CategoryViewSet, GenreViewSet                                           *)

NewSlugRow(slug) == [slug |-> slug, name |-> "n"]

SlugBody(keys, slug) == [keys |-> keys, slug |-> slug]

CategorySlugs == {"c1"}
GenreSlugs == {"g1"}

\* Category.on_delete=SET_NULL for the titles that reference it
SetNullCategory(slug) ==
    {IF t.category = slug THEN [t EXCEPT !.category = ""] ELSE t : t \in titles}

\* the rows of the genre link table go with the genre
DetachGenre(slug) == {[t EXCEPT !.genre = @ \ {slug}] : t \in titles}

\* the whole handler of a request to the categories or genres endpoint, over
\* the rows of that table: the response and the rows after it.  The viewset
\* has create, list and destroy; the router binds no other action, and
\* dispatch checks the permissions before it looks for a handler
SlugHandle(rows, action, uid, slug, body) ==
    LET u == RequestUser(uid)
        method == MethodOf(action)
        respond(status, rs) == [status |-> status, rows |-> rs]
    IN  IF ~CatalogPermission(u, method)
        THEN respond(AuthorizationError, rows)
        ELSE IF action = "list" THEN respond(OK, rows)
        ELSE IF action = "create"
        THEN IF /\ {"name", "slug"} \subseteq body.keys
                /\ ~ \E r \in rows : r.slug = body.slug
             THEN respond(Created, rows \cup {NewSlugRow(body.slug)})
             ELSE respond(ValidationError, rows)
        ELSE IF action = "destroy"
        THEN IF \E r \in rows : r.slug = slug
             THEN respond(NoContent, {r \in rows : r.slug # slug})
             ELSE respond(NotFound, rows)
        ELSE respond(MethodNotAllowed, rows)

SlugActions ==
    {"list", "create", "destroy", "retrieve", "update", "partial_update"}

CategoryRequest ==
    \E action \in SlugActions, uid \in ActorIds, slug \in CategorySlugs,
       keys \in {{"name", "slug"}, {"name"}} :
        LET h == SlugHandle(categories, action, uid, slug, SlugBody(keys, slug))
        IN  /\ last = Quiet
            /\ action # "create" => keys = {"name"}
            /\ categories' = h.rows
            /\ titles' = IF h.status = NoContent
                         THEN SetNullCategory(slug) ELSE titles
            /\ last' = Resp("categories", action, uid, Path(0, 0, 0), h.status)
            /\ UNCHANGED <<users, genres, reviews, comments, seq, inflight,
                           outbox, clock>>

GenreRequest ==
    \E action \in SlugActions, uid \in ActorIds, slug \in GenreSlugs,
       keys \in {{"name", "slug"}, {"name"}} :
        LET h == SlugHandle(genres, action, uid, slug, SlugBody(keys, slug))
        IN  /\ last = Quiet
            /\ action # "create" => keys = {"name"}
            /\ genres' = h.rows
            /\ titles' = IF h.status = NoContent
                         THEN DetachGenre(slug) ELSE titles
            /\ last' = Resp("genres", action, uid, Path(0, 0, 0), h.status)
            /\ UNCHANGED <<users, categories, reviews, comments, seq, inflight,
                           outbox, clock>>

-----------------------------------------------------------------------------
(* api/views.py: AdminUserViewSet *)

\* on_delete=CASCADE from User to Review and Comment
ReviewsBy(us) == {r \in reviews : \E u \in us : r.author = u.id}

CommentsBy(us) == {c \in comments : \E u \in us : c.author = u.id}

\* DELETE /users/{username}/: the response and the tables after it
UserDestroy(uid, username) ==
    LET u == RequestUser(uid)
        same == [users |-> users, reviews |-> reviews, comments |-> comments]
        gone == {x \in users : x.username = username}
    IN  IF ~IsAdminRole(u)
        THEN [status |-> AuthorizationError, tables |-> same]
        ELSE IF gone = {}
        THEN [status |-> NotFound, tables |-> same]
        ELSE [status |-> NoContent,
              tables |-> [users |-> users \ gone,
                          reviews |-> reviews \ ReviewsBy(gone),
                          comments |-> (comments \ CommentsBy(gone))
                                        \ CascadeComments(ReviewsBy(gone))]]

Usernames == {u.username : u \in users} \cup {"nobody"}

DestroyUser ==
    \E uid \in ActorIds, username \in Usernames :
        LET h == UserDestroy(uid, username)
        IN  /\ last = Quiet
            /\ users' = h.tables.users
            /\ reviews' = h.tables.reviews
            /\ comments' = h.tables.comments
            /\ last' = Resp("users", "destroy", uid, Path(0, 0, 0), h.status)
            /\ UNCHANGED <<categories, genres, titles, seq, inflight, outbox,
                           clock>>

-----------------------------------------------------------------------------
(* api/views.py: send_code, send_confirmation_code, get_jwt_token;         *)
(* api/serializers.py: ConfirmationCodeSerializer, JWTTokenSerializer      *)

UsernameInputs == {"alice", "bob", "me", ""}
EmailInputs == {"alice@x", "bob@x", "nomail"}

\* EmailField: the inputs that are addresses
IsEmail(e) == e \in {"alice@x", "bob@x"}

\* ConfirmationCodeSerializer: both fields required, the email an address,
\* and validate_username
SignupErrors(username, email) ==
    IF username # "" /\ IsEmail(email) /\ username # "me" THEN "" ELSE "invalid"

\* User.objects.get_or_create(username=, email=): the row with both values,
\* or else an INSERT, which the unique username and the unique email of the
\* table let fail with IntegrityError
GetOrCreate_noEmailUnique(username, email) ==
    LET found == {u \in users : u.username = username /\ u.email = email}
    IN  IF found # {}
        THEN [error |-> FALSE, created |-> FALSE,
              user |-> CHOOSE u \in found : TRUE]
        ELSE IF \E u \in users : u.username = username
        THEN [error |-> TRUE, created |-> FALSE, user |-> AnonymousUser]
        ELSE [error |-> FALSE, created |-> TRUE,
              user |-> NewUser(seq.user, username, email, USER, FALSE)]
GetOrCreate(username, email) ==
    LET found == {u \in users : u.username = username /\ u.email = email}
    IN  IF found # {}
        THEN [error |-> FALSE, created |-> FALSE,
              user |-> CHOOSE u \in found : TRUE]
        ELSE IF \E u \in users : u.username = username \/ u.email = email
        THEN [error |-> TRUE, created |-> FALSE, user |-> AnonymousUser]
        ELSE [error |-> FALSE, created |-> TRUE,
              user |-> NewUser(seq.user, username, email, USER, FALSE)]

\* default_token_generator.make_token(user): a code over the user's pk and
\* email and the time
make_token(user) == Code(user.id, user.email, clock)

\* default_token_generator.check_token(user, code): the code is the one made
\* for this user state, and is no older than the timeout
check_token(user, code) ==
    /\ code.uid = user.id
    /\ code.email = user.email
    /\ code.day <= clock
    /\ clock - code.day <= CodeLifetime

Mail(to, code) == [to |-> to, code |-> code]

\* POST /auth/signup/; send_mail either delivers or raises (fail_silently is
\* False), after the user has been stored
send_confirmation_code ==
    \E username \in UsernameInputs, email \in EmailInputs, delivers \in BOOLEAN :
        LET got == GetOrCreate(username, email)
            answer(status, detail) ==
                [Resp("signup", "create", AnonymousUser.id, Path(0, 0, 0), status)
                 EXCEPT !.name = username, !.email = email, !.detail = detail]
        IN  /\ last = Quiet
            /\ IF SignupErrors(username, email) # ""
               THEN /\ last' = answer(ValidationError, "invalid")
                    /\ UNCHANGED <<users, seq, outbox>>
               ELSE IF got.error
               THEN /\ last' = answer(ValidationError, "")
                    /\ UNCHANGED <<users, seq, outbox>>
               ELSE /\ users' = users \cup {got.user}
                    /\ seq' = IF got.created
                              THEN [seq EXCEPT !.user = @ + 1] ELSE seq
                    /\ seq'.user <= MaxUserId + 1
                    /\ IF delivers
                       THEN /\ outbox' = Append(outbox,
                                    Mail(got.user.email, make_token(got.user)))
                            /\ Len(outbox') <= MaxMails
                            /\ last' = answer(IF got.created THEN Created ELSE OK,
                                              "")
                       ELSE /\ outbox' = outbox
                            /\ last' = answer(ServerError, "delivery")
            /\ UNCHANGED <<categories, genres, titles, reviews, comments,
                           inflight, clock>>

\* the attributes of an AccessToken object of rest_framework_simplejwt
AccessTokenAttributes ==
    {"token_type", "lifetime", "payload", "current_time", "token", "verify",
     "verify_token_type", "set_jti", "set_exp", "set_iat", "check_exp",
     "for_user", "get"}

\* the codes a client may present: the mailed ones, and one never issued
CodeInputs ==
    {outbox[i].code : i \in 1..Len(outbox)} \cup {NoCode}

\* POST /auth/token/
get_jwt_token ==
    \E username \in UsernameInputs, code \in CodeInputs, sent \in BOOLEAN :
        LET found == {u \in users : u.username = username}
            answer(status, token) ==
                [Resp("token", "create", AnonymousUser.id, Path(0, 0, 0), status)
                 EXCEPT !.name = username,
                        !.code = IF sent THEN code ELSE NoCode,
                        !.detail = IF sent THEN "" ELSE "invalid",
                        !.token = token]
        IN  /\ last = Quiet
            /\ ~sent => code = NoCode
            /\ last' =
                IF username = "" \/ ~sent THEN answer(ValidationError, 0)
                ELSE IF found = {} THEN answer(NotFound, 0)
                ELSE LET user == CHOOSE u \in found : TRUE
                     IN  IF check_token(user, code)
                         THEN IF "access_token" \in AccessTokenAttributes
                              THEN answer(OK, user.id)
                              ELSE answer(ServerError, 0)
                         ELSE answer(ValidationError, 0)
            /\ UNCHANGED <<users, categories, genres, titles, reviews, comments,
                           seq, inflight, outbox, clock>>

\* a day passes
Tick ==
    /\ last = Quiet
    /\ clock < MaxClock
    /\ clock' = clock + 1
    /\ UNCHANGED <<users, categories, genres, titles, reviews, comments, seq,
                   inflight, outbox, last>>

-----------------------------------------------------------------------------
(* api/views.py: AdminUserViewSet and its action me; api/serializers.py:   *)
(* MeSerializer, AdminUserSerializer; api/permissions.py: IsMe             *)

CHOICES == {USER, MODERATOR, ADMIN}

\* IsMe.has_permission
IsMe(u) == is_authenticated(u)

\* the body of a user request: the fields it supplies and their values
UserBody(keys, username, email, role) ==
    [keys |-> keys, username |-> username, email |-> email, role |-> role]

\* bodies with a role alone (one of them no choice), with a full identity,
\* with and without role, and with one field, valid, taken or malformed
UserBodies ==
    {UserBody({"role"}, "", "", r) : r \in CHOICES \cup {"owner"}}
    \cup {UserBody({"username", "email"}, n, "bob@x", "") : n \in {"bob", "me"}}
    \cup {UserBody({"username", "email", "role"}, "alice", "alice@x", r) :
            r \in {MODERATOR, "owner"}}
    \cup {UserBody({"username"}, n, "", "") : n \in {"alice", "root", ""}}
    \cup {UserBody({"email"}, "", e, "") : e \in {"alice@x", "nomail"}}

\* MeSerializer.username and MeSerializer.email: required unless the update
\* is partial, not blank, the email an address, each unique among the other
\* rows (UniqueValidator leaves the instance out), and validate_username
IdentityErrors(body, partial, instance) ==
    LET others == {u \in users : u.id # instance.id}
        username_ok ==
            IF "username" \in body.keys
            THEN /\ body.username \notin {"", "me"}
                 /\ \A u \in others : u.username # body.username
            ELSE partial
        email_ok ==
            IF "email" \in body.keys
            THEN /\ IsEmail(body.email)
                 /\ \A u \in others : u.email # body.email
            ELSE partial
    IN  IF username_ok /\ email_ok THEN "" ELSE "invalid"

\* MeSerializer.role is read_only: what the request supplies for it is
\* dropped before validation
MeData_roleWritable(body) == body
MeData(body) == [body EXCEPT !.keys = @ \ {"role"}, !.role = ""]

\* AdminUserSerializer.role: a ChoiceField whose default, User.USER, stands
\* in for a missing role unless the update is partial
AdminData(body, partial) ==
    IF "role" \notin body.keys /\ ~partial
    THEN [body EXCEPT !.keys = @ \cup {"role"}, !.role = USER]
    ELSE body

\* the ChoiceField rejects what is not in CHOICES
RoleErrors(data) ==
    IF "role" \in data.keys /\ data.role \notin CHOICES THEN "invalid" ELSE ""

\* ModelSerializer.update: the validated fields are set on the instance
UserApply(u, data) ==
    [u EXCEPT !.username = IF "username" \in data.keys THEN data.username ELSE @,
              !.email = IF "email" \in data.keys THEN data.email ELSE @,
              !.role = IF "role" \in data.keys THEN data.role ELSE @]

UserAnswer(view, action, uid, name, body, status) ==
    [Resp(view, action, uid, Path(0, 0, 0), status)
     EXCEPT !.name = name, !.keys = body.keys, !.role = body.role]

UserFrame ==
    UNCHANGED <<categories, genres, titles, reviews, comments, inflight,
                outbox, clock>>

\* GET and PATCH /users/me/
me ==
    \E uid \in ActorIds, method \in {"GET", "PATCH"}, body \in UserBodies :
        LET user == RequestUser(uid)
            data == MeData(body)
            action == IF method = "GET" THEN "retrieve" ELSE "partial_update"
            answer(status) ==
                UserAnswer("me", action, uid, user.username, body, status)
        IN  /\ last = Quiet
            /\ IF ~IsMe(user)
               THEN /\ last' = answer(AuthorizationError)
                    /\ UNCHANGED <<users, seq>>
               ELSE IF method = "GET"
               THEN /\ last' = [answer(OK) EXCEPT !.ids = {user.id}]
                    /\ UNCHANGED <<users, seq>>
               ELSE IF IdentityErrors(data, TRUE, user) # ""
               THEN /\ last' = answer(ValidationError)
                    /\ UNCHANGED <<users, seq>>
               ELSE /\ users' = (users \ {user}) \cup {UserApply(user, data)}
                    /\ last' = [answer(OK) EXCEPT !.ids = {user.id}]
                    /\ UNCHANGED seq
            /\ UserFrame

\* POST /users/
CreateUser ==
    \E uid \in ActorIds, body \in UserBodies :
        LET data == AdminData(body, FALSE)
            answer(status) ==
                UserAnswer("users", "create", uid, body.username, body, status)
        IN  /\ last = Quiet
            /\ IF ~IsAdminRole(RequestUser(uid))
               THEN /\ last' = answer(AuthorizationError)
                    /\ UNCHANGED <<users, seq>>
               ELSE IF IdentityErrors(data, FALSE, AnonymousUser) # ""
                        \/ RoleErrors(data) # ""
               THEN /\ last' = answer(ValidationError)
                    /\ UNCHANGED <<users, seq>>
               ELSE /\ users' = users \cup
                            {NewUser(seq.user, data.username, data.email,
                                     data.role, FALSE)}
                    /\ seq' = [seq EXCEPT !.user = @ + 1]
                    /\ seq'.user <= MaxUserId + 1
                    /\ last' = [answer(Created) EXCEPT !.ids = {seq.user}]
            /\ UserFrame

\* PUT and PATCH /users/{username}/
UpdateUser ==
    \E uid \in ActorIds, username \in Usernames, body \in UserBodies,
       action \in {"update", "partial_update"} :
        LET partial == action = "partial_update"
            data == AdminData(body, partial)
            found == {u \in users : u.username = username}
            answer(status) ==
                UserAnswer("users", action, uid, username, body, status)
        IN  /\ last = Quiet
            /\ IF ~IsAdminRole(RequestUser(uid))
               THEN last' = answer(AuthorizationError) /\ users' = users
               ELSE IF found = {}
               THEN last' = answer(NotFound) /\ users' = users
               ELSE LET user == CHOOSE u \in found : TRUE
                    IN  IF IdentityErrors(data, partial, user) # ""
                            \/ RoleErrors(data) # ""
                        THEN /\ last' = answer(ValidationError)
                             /\ users' = users
                        ELSE /\ users' = (users \ {user})
                                            \cup {UserApply(user, data)}
                             /\ last' = [answer(OK) EXCEPT !.ids = {user.id}]
            /\ UNCHANGED seq
            /\ UserFrame

-----------------------------------------------------------------------------
(* Populations of the store, and the specifications *)

Alice == NewUser(1, "alice", "alice@x", USER, FALSE)
Mod == NewUser(2, "mod", "mod@x", MODERATOR, FALSE)
Adm == NewUser(3, "adm", "adm@x", ADMIN, FALSE)
Bob == NewUser(4, "bob", "bob@x", USER, FALSE)
Stf == NewUser(5, "stf", "stf@x", USER, TRUE)

MaxOf(S) == IF S = {} THEN 0 ELSE CHOOSE m \in S : \A x \in S : x <= m

\* a store as construction and fixtures leave it, served by idle workers
InitStore(us, cs, gs, ts, rs, cms) ==
    /\ users = us
    /\ categories = cs
    /\ genres = gs
    /\ titles = ts
    /\ reviews = rs
    /\ comments = cms
    /\ seq = [user |-> MaxOf({u.id : u \in us}) + 1,
              title |-> MaxOf({t.id : t \in ts}) + 1,
              review |-> MaxOf({r.id : r \in rs}) + 1,
              comment |-> MaxOf({c.id : c \in cms}) + 1]
    /\ inflight = [w \in Workers |-> Idle]
    /\ outbox = <<>>
    /\ clock = 0
    /\ last = Quiet

\* one title and one user (and the anonymous actor), review writes
\* interleaving across the workers
InitRace ==
    InitStore({Alice, Mod}, {}, {}, {NewTitle(1, "t", 2023, "", {})}, {}, {})

NextRace ==
    \/ \E w \in Workers : BeginCreateReview(w)
    \/ \E w \in Workers : BeginUpdateReview(w)
    \/ \E w \in Workers : BeginDestroyReview(w)
    \/ \E w \in Workers : FinishReview(w)
    \/ Deliver

SpecRace == InitRace /\ [][NextRace]_vars

-----------------------------------------------------------------------------
(* C1: in every state reachable by any interleaving of review create,      *)
(* update and delete requests, the store holds at most one Review for each *)
(* (Title, author) pair.                                                   *)
C1_OneReviewPerTitleAndAuthor ==
    \A r1 \in reviews, r2 \in reviews :
        (r1.title = r2.title /\ r1.author = r2.author) => r1 = r2

\* two creates of one author on one title were in flight together, both
\* validated, and one of them has inserted
C1_Witness ==
    \E w1 \in Workers, w2 \in Workers :
        /\ w1 # w2
        /\ inflight[w1] = Idle
        /\ inflight[w2].action = "create"
        /\ last.step = "finish" /\ last.action = "create" /\ last.status = Created
        /\ last.user = inflight[w2].user /\ last.tid = inflight[w2].tid

-----------------------------------------------------------------------------
(* C2: when an authenticated author already has a Review stored for a      *)
(* Title, a create request (POST) by that author on that Title fails with  *)
(* ValidationError and leaves the Reviews unchanged, whereas an update     *)
(* (PUT/PATCH) by that author of the existing Review is never rejected by  *)
(* the duplicate check.                                                    *)
C2_DuplicateCreateRejected ==
    [][LET r == last'
           mine == {x \in reviews : x.author = r.user /\ x.title = r.tid}
       IN  (r.view = "reviews" /\ r.step = "begin" /\ r.user # AnonymousUser.id
                /\ mine # {})
           => /\ r.action = "create"
                    => /\ r.status = ValidationError
                       /\ reviews' = reviews
                       /\ inflight' = inflight
              /\ (r.action \in {"update", "partial_update"}
                    /\ \E x \in mine : x.id = r.rid)
                    => r.detail # "duplicate"]_vars

\* the author's second POST on the title has been answered
C2_Witness ==
    /\ last.view = "reviews" /\ last.step = "begin" /\ last.action = "create"
    /\ last.status = ValidationError /\ last.detail = "duplicate"
    /\ \E x \in reviews : x.author = last.user /\ x.title = last.tid

-----------------------------------------------------------------------------
(* C3: when two create requests of one author for one Title both pass the  *)
(* existence pre-check before either inserts, the request whose insert     *)
(* violates the uniqueness constraint ends with ValidationError.           *)
C3_RaceLoserGetsValidationError ==
    [][LET r == last'
       IN  (/\ r.view = "reviews" /\ r.step = "finish" /\ r.action = "create"
            /\ TitleExists(r.tid)
            /\ \E x \in reviews : x.author = r.user /\ x.title = r.tid)
           => r.status = ValidationError]_vars

-----------------------------------------------------------------------------
\* two titles and three users: reviews are created, rescored and deleted,
\* users are deleted, and the titles are read
InitRating ==
    InitStore({Alice, Mod, Adm}, {}, {},
              {NewTitle(1, "t", ThisYear, "", {}),
               NewTitle(2, "t", ThisYear, "", {})}, {}, {})

NextRating ==
    \/ CreateReview
    \/ UpdateReview
    \/ DestroyReview
    \/ DestroyUser
    \/ ListTitles
    \/ RetrieveTitle
    \/ Deliver

SpecRating == InitRating /\ [][NextRating]_vars

(* C4: after any sequence of review create, score update and delete        *)
(* operations (deletion by a moderator and cascade deletion of an author's *)
(* reviews included), the rating a Title list or retrieve returns equals   *)
(* the arithmetic mean of the scores of exactly the Reviews stored for     *)
(* that Title, and is null (not zero) when the Title has no Reviews.       *)
C4_RatingIsMeanOfStoredReviews ==
    (last.view = "titles" /\ last.action \in {"list", "retrieve"}
        /\ last.status = OK)
    => /\ {x.title : x \in last.ratings} =
            IF last.action = "retrieve" THEN {last.tid}
            ELSE {t.id : t \in titles}
       /\ \A x \in last.ratings :
            LET scores == {r \in reviews : r.title = x.title}
            IN  IF scores = {}
                THEN x.rating.null
                ELSE /\ ~x.rating.null
                     /\ x.rating.den > 0
                     /\ x.rating.num * Cardinality(scores)
                            = x.rating.den * SumScores(scores)

\* a title with two reviews was read, next to a title without reviews
C4_Witness ==
    /\ last.view = "titles" /\ last.action = "list" /\ last.status = OK
    /\ \E x \in last.ratings : ~x.rating.null /\ x.rating.den = 2
    /\ \E x \in last.ratings : x.rating.null

-----------------------------------------------------------------------------
\* two titles with a review each, and two users: comments are listed, read,
\* created, changed and deleted under every path
InitComments ==
    InitStore({Alice, Mod}, {}, {},
              {NewTitle(1, "t", ThisYear, "", {}),
               NewTitle(2, "t", ThisYear, "", {})},
              {NewReview(1, 1, Alice.id, Body({"text", "score"}, "a", MinScore)),
               NewReview(2, 2, Mod.id, Body({"text", "score"}, "a", MaxScore))},
              {})

NextComments ==
    \/ ListComments
    \/ RetrieveComment
    \/ CreateComment
    \/ UpdateComment
    \/ DestroyComment
    \/ Deliver

SpecComments == InitComments /\ [][NextComments]_vars

\* a Review exists whose id and whose Title id are those of the path
Matches(tid, rid) == \E x \in reviews : x.id = rid /\ x.title = tid

\* the comments a step created, changed or deleted
Touched == (comments \ comments') \cup (comments' \ comments)

(* C5 as stated: every comment request under a path (title_id, review_id)  *)
(* that no Review matches in both ids fails with NotFoundError and neither *)
(* returns nor creates nor changes any Comment.                            *)
C5_MismatchIsNotFound ==
    [][LET r == last'
       IN  (r.view = "comments" /\ ~Matches(r.tid, r.rid))
           => /\ r.status = NotFound
              /\ r.ids = {}
              /\ comments' = comments]_vars

(* C5 as amended: such a request fails and neither returns nor creates nor *)
(* changes any Comment; it fails with NotFoundError unless it is a write   *)
(* of an anonymous actor (AuthorizationError) or a create with an invalid  *)
(* body (ValidationError), which are rejected before the lookup; and a     *)
(* successful request only touches Comments of the Review that matches     *)
(* both ids.                                                               *)
C5_MismatchFailsAndLeaksNothing ==
    [][LET r == last'
       IN  r.view = "comments"
           => /\ ~Matches(r.tid, r.rid)
                    => /\ r.ids = {}
                       /\ comments' = comments
                       /\ \/ r.status = NotFound
                          \/ /\ r.status = AuthorizationError
                             /\ r.user = AnonymousUser.id
                             /\ MethodOf(r.action) \notin SAFE_METHODS
                          \/ /\ r.status = ValidationError
                             /\ r.action = "create"
              /\ r.status \in Successes
                    => /\ Matches(r.tid, r.rid)
                       /\ \A c \in Touched : c.review = r.rid
                       /\ \A id \in r.ids :
                            \E c \in comments \cup comments' :
                                c.id = id /\ c.review = r.rid]_vars

\* the comments of a review were asked for under the other title
C5_Witness ==
    /\ last.view = "comments" /\ last.action = "list" /\ last.status = NotFound
    /\ TitleExists(last.tid)
    /\ \E r \in reviews : r.id = last.rid /\ r.title # last.tid
    /\ \E c \in comments : c.review = last.rid

-----------------------------------------------------------------------------
Everyone == {Alice, Mod, Adm, Bob, Stf}

\* users of every kind, and one title with a review and a comment on it, each
\* written by any of the users: the objects are read, changed and deleted by
\* every actor
InitObjects ==
    \E a \in Everyone, b \in Everyone :
        InitStore(Everyone, {}, {}, {NewTitle(1, "t", ThisYear, "", {})},
                  {NewReview(1, 1, a.id, Body({"text", "score"}, "a", MinScore))},
                  {NewComment(1, 1, b.id, Body({"text"}, "a", 0))})

NextObjects ==
    \/ RetrieveReview
    \/ UpdateReview
    \/ DestroyReview
    \/ RetrieveComment
    \/ UpdateComment
    \/ DestroyComment
    \/ Deliver

SpecObjects == InitObjects /\ [][NextObjects]_vars

\* the Review or Comment a detail request addresses, if the path finds one
Addressed(r) ==
    IF r.view = "reviews"
    THEN {x \in reviews : x.id = r.rid /\ x.title = r.tid /\ TitleExists(r.tid)}
    ELSE {x \in comments :
            /\ x.id = r.cid /\ x.review = r.rid
            /\ \E y \in reviews : y.id = r.rid /\ y.title = r.tid}

\* admin (role admin or staff flag), moderator, or the author of the object
MayChange(uid, obj) ==
    \E u \in users :
        /\ u.id = uid
        /\ u.role = ADMIN \/ u.is_staff \/ u.role = MODERATOR \/ obj.author = uid

(* C6: an update or delete of a Review or Comment takes effect only when   *)
(* the acting user is an admin (role admin or staff flag), a moderator or  *)
(* the object's author; an authenticated actor who is none of these can    *)
(* retrieve the object, but their update or delete is denied with          *)
(* AuthorizationError and the object is left unchanged.                    *)
C6_OnlyPrivilegedOrAuthorChanges ==
    [][LET r == last'
       IN  (r.view \in {"reviews", "comments"} /\ r.step = "request")
           => \A obj \in Addressed(r) :
                /\ (r.action \in {"update", "partial_update", "destroy"}
                        /\ (reviews' # reviews \/ comments' # comments))
                    => MayChange(r.user, obj)
                /\ (r.action \in {"update", "partial_update", "destroy"}
                        /\ r.user # AnonymousUser.id
                        /\ ~MayChange(r.user, obj))
                    => /\ r.status = AuthorizationError
                       /\ reviews' = reviews
                       /\ comments' = comments
                /\ (r.action = "retrieve" /\ r.user # AnonymousUser.id)
                    => r.status = OK /\ r.ids = {obj.id}]_vars

\* a plain user who is not the author has been denied a write to a comment
C6_Witness ==
    /\ last.view = "comments"
    /\ last.action \in {"update", "partial_update", "destroy"}
    /\ last.status = AuthorizationError
    /\ \E u \in users :
        u.id = last.user /\ u.role = USER /\ ~u.is_staff
    /\ \E c \in comments :
        c.id = last.cid /\ c.review = last.rid /\ c.author # last.user

-----------------------------------------------------------------------------
\* a category, a genre and a reviewed title, and users of every kind: the
\* catalog is read and written by every actor
InitCatalog ==
    InitStore(Everyone, {NewSlugRow("c1")}, {NewSlugRow("g1")},
              {NewTitle(1, "t", ThisYear, "c1", {"g1"})},
              {NewReview(1, 1, Alice.id, Body({"text", "score"}, "a", MinScore))},
              {NewComment(1, 1, Bob.id, Body({"text"}, "a", 0))})

NextCatalog ==
    \/ CategoryRequest
    \/ GenreRequest
    \/ ListTitles
    \/ RetrieveTitle
    \/ CreateTitle
    \/ UpdateTitle
    \/ DestroyTitle
    \/ Deliver

SpecCatalog == InitCatalog /\ [][NextCatalog]_vars

Writes == {"create", "update", "partial_update", "destroy"}

(* C8: Category, Genre and Title are readable by every actor, and a        *)
(* create, update or delete on them takes effect only when the actor is    *)
(* authenticated and has role admin or the staff flag; the same write by   *)
(* an authenticated actor with role user or moderator (and no staff flag)  *)
(* is denied and changes nothing.                                          *)
C8_CatalogWritesNeedAdmin ==
    [][LET r == last'
       IN  r.view \in {"categories", "genres", "titles"}
           => /\ r.action = "list" => r.status = OK
              /\ (r.action = "retrieve" /\ r.view = "titles" /\ TitleExists(r.tid))
                    => r.status = OK /\ r.ids = {r.tid}
              /\ store' # store
                    => \E u \in users :
                        u.id = r.user /\ (u.role = ADMIN \/ u.is_staff)
              /\ (r.action \in Writes
                    /\ \E u \in users :
                        /\ u.id = r.user
                        /\ u.role \in {USER, MODERATOR}
                        /\ ~u.is_staff)
                    => r.status = AuthorizationError /\ store' = store]_vars

\* a moderator has been denied the creation of a title
C8_Witness ==
    /\ last.view = "titles" /\ last.action = "create"
    /\ last.status = AuthorizationError
    /\ \E u \in users : u.id = last.user /\ u.role = MODERATOR /\ ~u.is_staff

-----------------------------------------------------------------------------
\* a catalog with two titles, and one plain user next to the anonymous actor:
\* every endpoint is used by both
InitAll ==
    InitStore({Alice}, {NewSlugRow("c1")}, {NewSlugRow("g1")},
              {NewTitle(1, "t", ThisYear, "c1", {"g1"}),
               NewTitle(2, "t", ThisYear, "", {})},
              {NewReview(1, 1, Alice.id, Body({"text", "score"}, "a", MinScore))},
              {NewComment(1, 1, Alice.id, Body({"text"}, "a", 0))})

Next ==
    \/ CategoryRequest
    \/ GenreRequest
    \/ ListTitles
    \/ RetrieveTitle
    \/ CreateTitle
    \/ UpdateTitle
    \/ DestroyTitle
    \/ ListReviews
    \/ RetrieveReview
    \/ CreateReview
    \/ UpdateReview
    \/ DestroyReview
    \/ ListComments
    \/ RetrieveComment
    \/ CreateComment
    \/ UpdateComment
    \/ DestroyComment
    \/ DestroyUser
    \/ Deliver

Spec == InitAll /\ [][Next]_vars

(* C7: an anonymous actor can retrieve any Title, Review or Comment, but   *)
(* every write attempt (create, update, delete) by an anonymous actor on   *)
(* Category, Genre, Title, Review or Comment fails with AuthorizationError *)
(* and leaves all stored entities unchanged.                               *)
C7_AnonymousReadsButNeverWrites ==
    [][LET r == last'
       IN  (r.user = AnonymousUser.id /\ r.view # "")
           => /\ (r.view \in {"categories", "genres", "titles", "reviews",
                              "comments"}
                    /\ r.action \in Writes)
                    => r.status = AuthorizationError /\ store' = store
              /\ (r.action = "retrieve" /\ r.view = "titles"
                    /\ TitleExists(r.tid))
                    => r.status = OK /\ r.ids = {r.tid}
              /\ (r.action = "retrieve" /\ r.view \in {"reviews", "comments"})
                    => \A obj \in Addressed(r) :
                        r.status = OK /\ r.ids = {obj.id}
              /\ store' = store]_vars

\* the anonymous actor has been denied the deletion of a stored comment
C7_Witness ==
    /\ last.user = AnonymousUser.id
    /\ last.view = "comments" /\ last.action = "destroy"
    /\ last.status = AuthorizationError
    /\ \E c \in comments : c.id = last.cid /\ c.review = last.rid

-----------------------------------------------------------------------------
\* an empty user table: users sign up, receive codes and exchange them
InitAuth == InitStore({}, {}, {}, {}, {}, {})

NextAuth ==
    \/ send_confirmation_code
    \/ get_jwt_token
    \/ Tick
    \/ Deliver

SpecAuth == InitAuth /\ [][NextAuth]_vars

(* C9: an exchange_code request carrying the username of an existing user  *)
(* and a confirmation code that the code validator accepts for that user   *)
(* succeeds and returns an access token bound to that user.                *)
C9_ValidCodeYieldsToken ==
    [][LET r == last'
       IN  (r.view = "token"
                /\ \E u \in users : u.username = r.name /\ check_token(u, r.code))
           => /\ r.status = OK
              /\ \E u \in users : u.username = r.name /\ r.token = u.id]_vars

(* C10: a request_code call whose username matches an existing user with a *)
(* different email, or whose email matches an existing user with a         *)
(* different username, fails with a validation error, creates or changes   *)
(* no User and sends no confirmation code; usernames and emails each stay  *)
(* unique across Users; and a repeated call with an existing exact         *)
(* (username, email) pair creates no new User and issues a code again.     *)
C10_SignupIdentityIsConsistent ==
    [][LET r == last'
       IN  r.view = "signup"
           => /\ (\E u \in users :
                    \/ u.username = r.name /\ u.email # r.email
                    \/ u.email = r.email /\ u.username # r.name)
                    => /\ r.status = ValidationError
                       /\ users' = users
                       /\ outbox' = outbox
              /\ \A u \in users :
                    (u.username = r.name /\ u.email = r.email)
                    => /\ users' = users
                       /\ \/ /\ r.status = OK
                             /\ outbox' = Append(outbox,
                                    Mail(u.email, Code(u.id, u.email, clock)))
                          \/ /\ r.status = ServerError
                             /\ r.detail = "delivery"
                             /\ outbox' = outbox
              /\ \A u1 \in users', u2 \in users' :
                    (u1.username = u2.username \/ u1.email = u2.email)
                    => u1 = u2]_vars

\* a signup has been refused because its email belongs to another username
C10_Witness ==
    /\ last.view = "signup" /\ last.status = ValidationError
    /\ last.name \notin {"me", ""}
    /\ \E u \in users : u.email = last.email /\ u.username # last.name
    /\ ~ \E u \in users : u.username = last.name

-----------------------------------------------------------------------------
\* the superuser the deployment starts with: role user and the staff flag
Root == NewUser(1, "root", "root@x", USER, TRUE)

\* users sign up and change their profile, and user rows are created and
\* changed through the admin endpoint, by every actor
InitUsers == InitStore({Root}, {}, {}, {}, {}, {})

NextUsers ==
    \/ send_confirmation_code
    \/ me
    \/ CreateUser
    \/ UpdateUser
    \/ Deliver

SpecUsers == InitUsers /\ [][NextUsers]_vars

\* admin-privileged: role admin or the staff flag
Privileged(uid) ==
    \E a \in users : a.id = uid /\ (a.role = ADMIN \/ a.is_staff)

(* C11: a User created through signup starts with role user; the role of   *)
(* any User changes only in a step performed by an admin-privileged actor  *)
(* through the admin users endpoint; and a self-profile PATCH that         *)
(* supplies a role is served, leaves the role unchanged and changes no     *)
(* other user's record.                                                    *)
C11_RoleChangesOnlyThroughAdmin ==
    [][LET r == last'
       IN  /\ r.view = "signup"
                => \A v \in users' :
                    (\A u \in users : u.id # v.id) => v.role = USER
           /\ \A u \in users, v \in users' :
                (u.id = v.id /\ u.role # v.role)
                => /\ r.view = "users"
                   /\ r.action \in {"update", "partial_update"}
                   /\ Privileged(r.user)
           /\ (r.view = "me" /\ r.action = "partial_update")
                => /\ \A u \in users : u.id # r.user => u \in users'
                   /\ \A u \in users, v \in users' :
                        u.id = v.id => u.role = v.role
                   /\ {v.id : v \in users'} = {u.id : u \in users}
                   /\ (r.user # AnonymousUser.id /\ r.keys = {"role"})
                        => r.status = OK /\ users' = users]_vars

\* a user without privileges has sent a role other than their own
\* in a profile PATCH and was answered, next to another user
C11_Witness ==
    /\ last.view = "me" /\ last.action = "partial_update" /\ last.status = OK
    /\ "role" \in last.keys
    /\ \E u \in users :
        /\ u.id = last.user /\ u.id # Root.id
        /\ ~u.is_staff /\ u.role = USER /\ last.role = ADMIN
    /\ \E u \in users : u.id # last.user

=============================================================================
